---- MODULE Spec2Model ----
(***************************************************************************)
(* A model of two parts of pdm:                                            *)
(*   - the export command, src/pdm/cli/commands/export.py (Command.handle) *)
(*   - the uv resolver,    src/pdm/resolver/uv.py (UvResolver)             *)
(* Each part has its own specification (SpecExport, SpecCmd, SpecParse,    *)
(* SpecResolve); the variables of the other parts stay at their idle value.*)
(***************************************************************************)
EXTENDS Integers, Sequences, FiniteSets, TLC

VARIABLES
    options,      \* export: the parsed command line (argparse.Namespace)
    lockfile,     \* export: project.lockfile: [exists, strategy]
    locked,       \* export: the candidate objects the locked repository yields
    declared,     \* export: the Requirements project.get_dependencies yields
    xpc,          \* export: "start" before handle() runs, "done" after
    outcome,      \* export: how handle() ended
    candidates,   \* export: the sorted candidates (line 103), as positions of locked
    kept,         \* export: the packages list, as positions of locked or declared
    handed,       \* export: the packages argument as the serializer reads it
    events,       \* export: what handle() did, in order
    config,       \* uv: the project and resolver settings the command builder reads
    sources,      \* uv: project.sources
    data,         \* uv: the "package" list of the lock document uv wrote
    project_name, \* uv: project.name
    keep_self,    \* uv: UvResolver.keep_self
    exit_status,  \* uv: the exit status the uv subprocess will have
    upc,          \* uv: "start" before the operation runs, "done" after
    cmd,          \* uv: the list _build_lock_command returned
    resolution,   \* uv: the packages of the Resolution returned, or NoResolution
    error,        \* uv: the exception that ended the operation, or "none"
    lookups,      \* uv: the URLs given to hash_cache.get_hash, in order
    visited,      \* uv: what the parser did with each record it reached
    uv_events     \* uv: what resolve() did, in order

exportVars ==
    <<options, lockfile, locked, declared, xpc, outcome, candidates, kept, handed, events>>

uvVars ==
    <<config, sources, data, project_name, keep_self, exit_status, upc, cmd,
      resolution, error, lookups, visited, uv_events>>

vars == <<exportVars, uvVars>>

-----------------------------------------------------------------------------
(* Bounds *)

MaxCands == 3
MaxDeclared == 2
MaxSources == 3
MaxPackages == 2

-----------------------------------------------------------------------------
(* Small helpers *)

SeqsUpTo(S, n) == UNION {[1..k -> S] : k \in 0..n}

Range(s) == {s[i] : i \in 1..Len(s)}

RECURSIVE SelectIdx(_, _)
\* the indices i of 1..n, ascending, for which keep[i] holds
SelectIdx(n, keep) ==
    IF n = 0 THEN <<>>
    ELSE IF keep[n] THEN Append(SelectIdx(n - 1, keep), n)
         ELSE SelectIdx(n - 1, keep)

-----------------------------------------------------------------------------
(* Idle values: the part of the state a specification does not use *)

NoResolution == [returned |-> FALSE, packages |-> <<>>]
NoConfig == [update_strategy |-> "reuse"]

UvIdle ==
    /\ config = NoConfig
    /\ sources = <<>>
    /\ data = <<>>
    /\ project_name = "None"
    /\ keep_self = FALSE
    /\ exit_status = 0
    /\ upc = "idle"
    /\ cmd = <<>>
    /\ resolution = NoResolution
    /\ error = "none"
    /\ lookups = <<>>
    /\ visited = <<>>
    /\ uv_events = <<>>

ExportIdle ==
    /\ options = [format |-> "requirements"]
    /\ lockfile = [exists |-> FALSE, strategy |-> {}]
    /\ locked = <<>>
    /\ declared = <<>>
    /\ xpc = "idle"
    /\ outcome = "none"
    /\ candidates = <<>>
    /\ kept = <<>>
    /\ handed = <<>>
    /\ events = <<>>

-----------------------------------------------------------------------------
(* Export: data *)

NoKey == "None"
NoMarker == "None"
FLAG_INHERIT_METADATA == "inherit_metadata"

PackageKeys == {"pkg", "lib", NoKey}
ExtrasValues == {{}, {"foo"}}
MarkerValues == {NoMarker, "sys_platform == 'win32'"}

\* A Requirement as export reads it: req.key, req.extras, req.marker.
Requirements == [key : PackageKeys, extras : ExtrasValues, marker : MarkerValues]

Strategies == {{"cross_platform"}, {"cross_platform", FLAG_INHERIT_METADATA}}

LockFiles == [exists : {TRUE}, strategy : Strategies]
                 \cup {[exists |-> FALSE, strategy |-> {"cross_platform"}]}

-----------------------------------------------------------------------------
(* Export: Command.handle *)

HasExtras(c) == c.extras # {}

HasMarker(c) == c.marker # NoMarker

\* key = candidate.req.key or ""
KeyOrEmpty(c) == IF c.key = NoKey THEN "" ELSE c.key

\* The sort key without its negation: candidates without extras sort first.
SortKeyBaseFirst(c) == HasExtras(c)

\* key=lambda c: not c.req.extras
SortKey(c) == ~HasExtras(c)

\* sorted(..., key=...): a stable ascending sort on a boolean key (False < True),
\* given as the order in which the positions of cands are visited.
SortedOrder(cands) ==
    SelectIdx(Len(cands), [i \in 1..Len(cands) |-> SortKey(cands[i]) = FALSE])
        \o SelectIdx(Len(cands), [i \in 1..Len(cands) |-> SortKey(cands[i]) = TRUE])

\* The loop's skip test with the key lookup dropped: any extras variant seen
\* suppresses every later candidate without extras.
SkippedAnyKey(opts, c, seen_extras) ==
    IF opts.extras
    THEN ~HasExtras(c) /\ seen_extras # {}
    ELSE HasExtras(c)

\* The branch of the loop body that ends in `continue`.
Skipped(opts, c, seen_extras) ==
    IF opts.extras
    THEN ~HasExtras(c) /\ KeyOrEmpty(c) \in seen_extras
    ELSE HasExtras(c)

\* seen_extras after the loop body ran on c.
SeenAfter(opts, c, seen_extras) ==
    IF opts.extras /\ HasExtras(c) THEN seen_extras \cup {KeyOrEmpty(c)}
    ELSE seen_extras

\* if not options.markers and candidate.req.marker: candidate.req.marker = None
\* The assignment is made on the object the repository yielded.
StripMarker(opts, c) ==
    IF ~opts.markers /\ HasMarker(c) THEN [c EXCEPT !.marker = NoMarker] ELSE c

RECURSIVE FilterLoop(_, _, _)
\* for candidate in candidates: ...   st = [seen_extras, packages, objs]
\* order: the positions still to visit; packages: the positions kept so far;
\* objs: the candidate objects, by position.
FilterLoop(opts, order, st) ==
    IF order = <<>> THEN st
    ELSE LET i == Head(order)
             c == st.objs[i]
         IN  IF Skipped(opts, c, st.seen_extras)
             THEN FilterLoop(opts, Tail(order), st)
             ELSE FilterLoop(opts, Tail(order),
                      [seen_extras |-> SeenAfter(opts, c, st.seen_extras),
                       packages |-> Append(st.packages, i),
                       objs |-> [st.objs EXCEPT ![i] = StripMarker(opts, c)]])

\* Lines 103-123: the sort and the loop.
FilterLocked(opts, cands) ==
    FilterLoop(opts, SortedOrder(cands),
               [seen_extras |-> {}, packages |-> <<>>, objs |-> cands])

\* The packages list as the serializer sees it: references to the objects.
Deref(packages, objs) == [k \in 1..Len(packages) |-> objs[packages[k]]]

\* if options.output: write_text(...) else: print(...)
Emit(opts) == IF opts.output THEN "written" ELSE "printed"

WarnEvents(opts) == IF opts.markers = FALSE THEN <<"warn">> ELSE <<>>

\* project.make_self_candidate(editable=...): a candidate without extras or marker
SelfCandidate == [key |-> "self", extras |-> {}, marker |-> NoMarker]

\* packages = [r for group in selection for r in project.get_dependencies(...)]
AllPositions(s) == [k \in 1..Len(s) |-> k]

\* handle(), as a function of its inputs
HandleResult(opts, lock, cands, deps) ==
    IF opts.format = "pylock"
    THEN LET repo == IF opts.self \/ opts.editable_self
                     THEN Append(cands, SelfCandidate) ELSE cands
         IN  [outcome |-> Emit(opts),
              candidates |-> <<>>,
              kept |-> <<>>,
              handed |-> repo,
              events |-> <<"get_locked_repository">>
                         \o (IF opts.self \/ opts.editable_self
                             THEN <<"add_package">> ELSE <<>>)
                         \o <<"convert", "output">>,
              locked |-> cands,
              options |-> opts]
    ELSE LET o2 == IF opts.pyproject THEN [opts EXCEPT !.hashes = FALSE] ELSE opts
         IN  IF o2.pyproject
             THEN [outcome |-> Emit(o2),
                   candidates |-> <<>>,
                   kept |-> AllPositions(deps),
                   handed |-> deps,
                   events |-> WarnEvents(o2) \o <<"get_dependencies", "export", "output">>,
                   locked |-> cands,
                   options |-> o2]
             ELSE IF ~lock.exists
             THEN [outcome |-> "usage_error",
                   candidates |-> <<>>,
                   kept |-> <<>>,
                   handed |-> <<>>,
                   events |-> WarnEvents(o2),
                   locked |-> cands,
                   options |-> o2]
             ELSE IF FLAG_INHERIT_METADATA \notin lock.strategy
             THEN [outcome |-> "usage_error",
                   candidates |-> <<>>,
                   kept |-> <<>>,
                   handed |-> <<>>,
                   events |-> WarnEvents(o2),
                   locked |-> cands,
                   options |-> o2]
             ELSE LET st == FilterLocked(o2, cands)
                  IN  [outcome |-> Emit(o2),
                       candidates |-> SortedOrder(cands),
                       kept |-> st.packages,
                       handed |-> Deref(st.packages, st.objs),
                       events |-> WarnEvents(o2)
                                  \o <<"evaluate_candidates", "filter", "export", "output">>,
                       locked |-> st.objs,
                       options |-> o2]

Handle ==
    /\ xpc = "start"
    /\ LET r == HandleResult(options, lockfile, locked, declared)
       IN  /\ outcome' = r.outcome
           /\ candidates' = r.candidates
           /\ kept' = r.kept
           /\ handed' = r.handed
           /\ events' = r.events
           /\ locked' = r.locked
           /\ options' = r.options
    /\ xpc' = "done"
    /\ UNCHANGED <<lockfile, declared>>
    /\ UNCHANGED uvVars

OptionsOf(fmt, py, mk, ex, out, slf, ed) ==
    [format |-> fmt, pyproject |-> py, markers |-> mk, extras |-> ex,
     output |-> out, self |-> slf, editable_self |-> ed, hashes |-> TRUE]

\* The runs of export: lock-derived requirements export over every candidate
\* list; declared-only export over every declared list; pylock export.
\* --self and --editable-self are mutually exclusive (line 63).
InitExport ==
    /\ UvIdle
    /\ xpc = "start"
    /\ outcome = "none"
    /\ candidates = <<>>
    /\ kept = <<>>
    /\ handed = <<>>
    /\ events = <<>>
    /\ \E mk \in BOOLEAN, ex \in BOOLEAN, out \in BOOLEAN :
         \/ /\ options = OptionsOf("requirements", FALSE, mk, ex, out, FALSE, FALSE)
            /\ lockfile \in LockFiles
            /\ locked \in (IF lockfile.exists THEN SeqsUpTo(Requirements, MaxCands)
                           ELSE {<<>>})
            /\ declared = <<>>
         \/ /\ options = OptionsOf("requirements", TRUE, mk, ex, out, FALSE, FALSE)
            /\ lockfile \in LockFiles
            /\ locked = <<>>
            /\ declared \in SeqsUpTo(Requirements, MaxDeclared)
         \/ /\ \E py \in BOOLEAN, slf \in BOOLEAN, ed \in BOOLEAN :
                 /\ ~(slf /\ ed)
                 /\ options = OptionsOf("pylock", py, mk, ex, out, slf, ed)
            /\ lockfile \in LockFiles
            /\ locked \in (IF lockfile.exists THEN SeqsUpTo(Requirements, 1)
                           ELSE {<<>>})
            /\ declared = <<>>

NextExport == Handle

SpecExport == InitExport /\ [][NextExport]_vars

-----------------------------------------------------------------------------
(* Export: properties *)

Emitted == outcome \in {"written", "printed"}

\* handle() has run in lock-derived mode with the requirements format and
\* reached the serializer.
LockDerivedDone ==
    /\ xpc = "done"
    /\ options.format = "requirements"
    /\ ~options.pyproject
    /\ Emitted

LockUnusable == ~lockfile.exists \/ FLAG_INHERIT_METADATA \notin lockfile.strategy

ExtrasVariantOf(i) ==
    \E j \in 1..Len(locked) : HasExtras(locked[j]) /\ locked[j].key = locked[i].key

\* C1: in lock-derived mode each candidate is kept at most once; with extras
\* kept, a candidate without extras is kept iff no candidate with extras has
\* its key, and every candidate with extras is kept; with extras stripped,
\* exactly the candidates without extras are kept.
C1_ExportFilter ==
    LockDerivedDone =>
        /\ \A k, l \in 1..Len(kept) : k # l => kept[k] # kept[l]
        /\ Len(handed) = Len(kept)
        /\ \A k \in 1..Len(kept) :
              /\ handed[k].key = locked[kept[k]].key
              /\ handed[k].extras = locked[kept[k]].extras
        /\ Range(kept) =
              IF options.extras
              THEN {i \in 1..Len(locked) : HasExtras(locked[i]) \/ ~ExtrasVariantOf(i)}
              ELSE {i \in 1..Len(locked) : ~HasExtras(locked[i])}

\* The example of the claim: pkg==1.0 and pkg[foo]==1.0 with extras kept
\* yields only pkg[foo].
C1_Witness ==
    /\ LockDerivedDone
    /\ options.extras
    /\ Len(locked) = 2
    /\ locked[1].key = "pkg" /\ locked[1].extras = {}
    /\ locked[2].key = "pkg" /\ locked[2].extras = {"foo"}
    /\ kept = <<2>>

\* C2 (as claimed): whenever export is not in declared-only mode and the
\* lock file is missing or lacks inherit_metadata, it ends with a usage error
\* and has neither evaluated, filtered, converted nor output anything.
C2_LockPrecondition ==
    (xpc = "done" /\ ~options.pyproject /\ LockUnusable) =>
        /\ outcome = "usage_error"
        /\ Range(events) \cap
             {"evaluate_candidates", "filter", "export", "convert", "output"} = {}

\* C3 (as claimed): with --no-markers and the requirements format, no entry
\* handed to the serializer carries a marker, in either input mode.
C3_NoMarkersHanded ==
    (xpc = "done" /\ options.format = "requirements" /\ ~options.markers /\ Emitted) =>
        \A k \in 1..Len(handed) : handed[k].marker = NoMarker

\* C4 (as claimed): export leaves the marker of every candidate object of
\* the locked repository as it was.
C4_RepositoryMarkersKept ==
    [][\A i \in 1..Len(locked) :
          Len(locked') = Len(locked) /\ locked'[i].marker = locked[i].marker]_vars

IsPermutation(s, n) ==
    /\ Len(s) = n
    /\ Range(s) = 1..n

\* s visits positions of locked; before(a, b) says class order a-then-b is allowed.
ExtrasFirst(s) ==
    \A k, l \in 1..Len(s) :
        k < l => (HasExtras(locked[s[k]]) \/ ~HasExtras(locked[s[l]]))

BaseFirst(s) ==
    \A k, l \in 1..Len(s) :
        k < l => (~HasExtras(locked[s[k]]) \/ HasExtras(locked[s[l]]))

StableWithinClass(s) ==
    \A k, l \in 1..Len(s) :
        (k < l /\ HasExtras(locked[s[k]]) = HasExtras(locked[s[l]])) => s[k] < s[l]

\* C10 (as claimed): the sorted candidates, and the kept entries, have every
\* candidate without extras before every candidate with extras.
C10_BaseFirst ==
    LockDerivedDone =>
        /\ IsPermutation(candidates, Len(locked))
        /\ BaseFirst(candidates)
        /\ StableWithinClass(candidates)
        /\ BaseFirst(kept)

\* C10 (amended): the sort is a stable sort that puts every candidate with
\* extras before every candidate without; so do the kept entries.
C10_ExtrasFirst ==
    LockDerivedDone =>
        /\ IsPermutation(candidates, Len(locked))
        /\ ExtrasFirst(candidates)
        /\ StableWithinClass(candidates)
        /\ ExtrasFirst(kept)
        /\ StableWithinClass(kept)

\* A base candidate listed before an extras variant of another package: both
\* are kept, and the extras variant comes out first.
C10_Witness ==
    /\ LockDerivedDone
    /\ options.extras
    /\ Len(locked) = 2
    /\ locked[1].key = "lib" /\ locked[1].extras = {}
    /\ locked[2].key = "pkg" /\ locked[2].extras = {"foo"}
    /\ candidates = <<2, 1>>
    /\ kept = <<2, 1>>

-----------------------------------------------------------------------------
(* uv resolver: _build_lock_command *)

FLAG_DIRECT_MINIMAL_VERSIONS == "direct_minimal_versions"
NoDate == "None"

SourceTypes == {"index", "find_links"}
SourceUrls == {"https://a.example/simple", "https://b.example/simple"}
Sources == [type : SourceTypes, url : SourceUrls]

\* The settings with nothing switched on. After __post_init__ the update
\* strategy is "reuse" or "all" and inherit_metadata is not among the strategies.
DefaultConfig ==
    [uv_cmd |-> <<"uv">>,
     interpreter |-> "/usr/bin/python3",
     verbosity |-> 0,
     enable_cache |-> TRUE,
     respect_source_order |-> FALSE,
     update_strategy |-> "all",
     tracked_names |-> <<"requests">>,
     allow_prereleases |-> FALSE,
     no_binary |-> <<>>,
     only_binary |-> <<>>,
     build_isolation |-> TRUE,
     config_settings |-> <<>>,
     strategies |-> {},
     exclude_newer |-> NoDate,
     rich_reporter |-> FALSE]

Configs ==
    {DefaultConfig,
     [DefaultConfig EXCEPT !.verbosity = 1],
     [DefaultConfig EXCEPT !.enable_cache = FALSE],
     [DefaultConfig EXCEPT !.respect_source_order = TRUE],
     [DefaultConfig EXCEPT !.update_strategy = "reuse"],
     [DefaultConfig EXCEPT !.allow_prereleases = TRUE],
     [DefaultConfig EXCEPT !.no_binary = <<":all:">>],
     [DefaultConfig EXCEPT !.no_binary = <<"numpy">>],
     [DefaultConfig EXCEPT !.only_binary = <<":all:">>],
     [DefaultConfig EXCEPT !.only_binary = <<"numpy", "lxml">>],
     [DefaultConfig EXCEPT !.build_isolation = FALSE],
     [DefaultConfig EXCEPT !.config_settings = <<<<"jobs", "4">>>>],
     [DefaultConfig EXCEPT !.strategies = {FLAG_DIRECT_MINIMAL_VERSIONS}],
     [DefaultConfig EXCEPT !.exclude_newer = "2024-01-01T00:00:00"],
     [DefaultConfig EXCEPT !.rich_reporter = TRUE],
     [DefaultConfig EXCEPT !.verbosity = 1, !.enable_cache = FALSE,
                           !.update_strategy = "reuse",
                           !.config_settings = <<<<"jobs", "4">>, <<"opt", "2">>>>,
                           !.exclude_newer = "2024-01-01T00:00:00"]}

RECURSIVE FlagEach(_, _)
\* for x in xs: cmd.extend([flag, x])
FlagEach(flag, xs) ==
    IF xs = <<>> THEN <<>> ELSE <<flag, Head(xs)>> \o FlagEach(flag, Tail(xs))

RECURSIVE ConfigSettingArgs(_)
\* for k, v in cs.items(): cmd.extend(["--config-setting", f"{k}={v}"])
ConfigSettingArgs(cs) ==
    IF cs = <<>> THEN <<>>
    ELSE <<"--config-setting", Head(cs)[1] \o "=" \o Head(cs)[2]>>
             \o ConfigSettingArgs(Tail(cs))

\* Every index source gets --index-url whatever came before it.
SourceFlagAlwaysPrimary(source, first_index) ==
    IF source.type = "find_links" THEN "--find-links" ELSE "--index-url"

\* The flag of one source, lines 71-77.
SourceFlag(source, first_index) ==
    IF source.type = "find_links" THEN "--find-links"
    ELSE IF first_index THEN "--index-url"
    ELSE "--extra-index-url"

RECURSIVE SourceArgs(_, _)
\* for source in self.project.sources: ...   (lines 68-77)
SourceArgs(srcs, first_index) ==
    IF srcs = <<>> THEN <<>>
    ELSE LET source == Head(srcs)
         IN  <<SourceFlag(source, first_index), source.url>>
               \o SourceArgs(Tail(srcs),
                             first_index /\ source.type = "find_links")

InList(x, xs) == \E i \in 1..Len(xs) : xs[i] = x

\* _build_lock_command, lines 57-111
BuildLockCommand(cfg, srcs) ==
    cfg.uv_cmd \o <<"lock", "-p", cfg.interpreter>>
    \o (IF cfg.verbosity > 0 THEN <<"--verbose">> ELSE <<>>)
    \o (IF ~cfg.enable_cache THEN <<"--no-cache">> ELSE <<>>)
    \o SourceArgs(srcs, TRUE)
    \o (IF cfg.respect_source_order THEN <<"--index-strategy=unsafe-first-match">>
        ELSE <<"--index-strategy=unsafe-best-match">>)
    \o (IF cfg.update_strategy # "all" THEN FlagEach("-P", cfg.tracked_names) ELSE <<>>)
    \o (IF cfg.allow_prereleases THEN <<"--prerelease=allow">> ELSE <<>>)
    \o (IF InList(":all:", cfg.no_binary) THEN <<"--no-binary">>
        ELSE FlagEach("--no-binary-package", cfg.no_binary))
    \o (IF InList(":all:", cfg.only_binary) THEN <<"--no-build">>
        ELSE FlagEach("--no-build-package", cfg.only_binary))
    \o (IF ~cfg.build_isolation THEN <<"--no-build-isolation">> ELSE <<>>)
    \o ConfigSettingArgs(cfg.config_settings)
    \o (IF FLAG_DIRECT_MINIMAL_VERSIONS \in cfg.strategies
        THEN <<"--resolution=lowest-direct">> ELSE <<>>)
    \o (IF cfg.exclude_newer # NoDate THEN <<"--exclude-newer", cfg.exclude_newer>>
        ELSE <<>>)

BuildCmd ==
    /\ upc = "start"
    /\ cmd' = BuildLockCommand(config, sources)
    /\ upc' = "done"
    /\ UNCHANGED <<config, sources, data, project_name, keep_self, exit_status,
                   resolution, error, lookups, visited, uv_events>>
    /\ UNCHANGED exportVars

InitCmd ==
    /\ ExportIdle
    /\ config \in Configs
    /\ sources \in SeqsUpTo(Sources, MaxSources)
    /\ data = <<>>
    /\ project_name = "None"
    /\ keep_self = FALSE
    /\ exit_status = 0
    /\ upc = "start"
    /\ cmd = <<>>
    /\ resolution = NoResolution
    /\ error = "none"
    /\ lookups = <<>>
    /\ visited = <<>>
    /\ uv_events = <<>>

NextCmd == BuildCmd

SpecCmd == InitCmd /\ [][NextCmd]_vars

(* Command builder: properties *)

SourceFlagNames == {"--find-links", "--index-url", "--extra-index-url"}

\* The positions of cmd that hold a source flag, ascending.
SourceFlagPositions ==
    SelectIdx(Len(cmd), [i \in 1..Len(cmd) |-> cmd[i] \in SourceFlagNames])

\* Every source gives one flag-value pair, in source order.
OnePairPerSource ==
    /\ Len(SourceFlagPositions) = Len(sources)
    /\ \A k \in 1..Len(sources) :
          /\ SourceFlagPositions[k] < Len(cmd)
          /\ cmd[SourceFlagPositions[k] + 1] = sources[k].url
          /\ k < Len(sources) => SourceFlagPositions[k + 1] = SourceFlagPositions[k] + 2

FlagOfSource(k) == cmd[SourceFlagPositions[k]]

PrimaryAtMostOnceAndFirst ==
    /\ Cardinality({k \in 1..Len(sources) : FlagOfSource(k) = "--index-url"}) <= 1
    /\ \A k, l \in 1..Len(sources) :
          (FlagOfSource(k) = "--extra-index-url" /\ FlagOfSource(l) = "--index-url")
              => l < k

\* C9 (as claimed): find_links sources get --find-links, the first source of
\* the list gets --index-url and every later source --extra-index-url.
C9_FirstSourcePrimary ==
    upc = "done" =>
        /\ OnePairPerSource
        /\ \A k \in 1..Len(sources) :
              FlagOfSource(k) =
                 IF sources[k].type = "find_links" THEN "--find-links"
                 ELSE IF k = 1 THEN "--index-url"
                 ELSE "--extra-index-url"
        /\ PrimaryAtMostOnceAndFirst

\* C9 (amended): find_links sources get --find-links, the first source that
\* is not find_links gets --index-url and every later one that is not
\* find_links gets --extra-index-url.
C9_FirstIndexPrimary ==
    upc = "done" =>
        /\ OnePairPerSource
        /\ \A k \in 1..Len(sources) :
              FlagOfSource(k) =
                 IF sources[k].type = "find_links" THEN "--find-links"
                 ELSE IF \A j \in 1..(k - 1) : sources[j].type = "find_links"
                      THEN "--index-url"
                 ELSE "--extra-index-url"
        /\ PrimaryAtMostOnceAndFirst

\* A find_links source ahead of two indexes.
C9_Witness ==
    /\ upc = "done"
    /\ Len(sources) = 3
    /\ sources[1].type = "find_links"
    /\ sources[2].type = "index"
    /\ sources[3].type = "index"
    /\ FlagOfSource(1) = "--find-links"
    /\ FlagOfSource(2) = "--index-url"
    /\ FlagOfSource(3) = "--extra-index-url"

-----------------------------------------------------------------------------
(* uv resolver: the lock document *)

\* An absent key of a TOML table is "" (or <<>> for the tokenised git string).
Absent == ""

\* A git source string, cut into the pieces GIT_URL tells apart.
GitRepo == "https://example.com/repo.git"
GitRevision == "abcdef1234567890"
RepoTokens == {GitRepo}
HexTokens == {GitRevision}

GitWithRef == <<GitRepo, "?rev=", "main", "#", GitRevision>>
GitNoRef == <<GitRepo, "#", GitRevision>>
GitNoRevision == <<GitRepo, "?rev=", "main">>
GitNotHex == <<GitRepo, "#", "xyz">>
GitTagQuery == <<GitRepo, "?tag=", "v1", "#", GitRevision>>
GitStrings == {GitWithRef, GitNoRef, GitNoRevision, GitNotHex, GitTagQuery}

Registry ==
    [registry |-> "https://pypi.org/simple", url |-> Absent, git |-> <<>>,
     editable |-> Absent, path |-> Absent, virtual |-> Absent]
NoSource == [Registry EXCEPT !.registry = Absent]

SourceTables ==
    {Registry,
     [NoSource EXCEPT !.url = "https://files.example/pkg-1.0.tar.gz"],
     [NoSource EXCEPT !.editable = "./pkg"],
     [NoSource EXCEPT !.path = "./dist/pkg-1.0.whl"],
     [NoSource EXCEPT !.virtual = "."]}
        \cup {[NoSource EXCEPT !.git = g] : g \in GitStrings}

\* Artifacts: the hash key may be missing; get_hash fails for BrokenUrls.
NoHash == ""
WheelHashed == [url |-> "https://files.example/pkg-1.0-py3-none-any.whl", hash |-> "sha256:aa"]
WheelBare == [url |-> "https://files.example/pkg-1.0-cp312-linux.whl", hash |-> NoHash]
WheelBroken == [url |-> "https://gone.example/pkg-1.0-cp312-win.whl", hash |-> NoHash]
SdistBare == [url |-> "https://files.example/pkg-1.0.tar.gz", hash |-> NoHash]
NoSdist == [url |-> Absent, hash |-> NoHash]
BrokenUrls == {WheelBroken.url}

DepBar == [name |-> "bar", version |-> Absent, marker |-> Absent, extra |-> <<>>]
DepBaz ==
    [name |-> "baz", version |-> "2.0", marker |-> "python_version < '3.12'",
     extra |-> <<"x">>]

GroupFoo == [group |-> "foo", deps |-> <<DepBar>>]
GroupDev == [group |-> "dev", deps |-> <<DepBaz, DepBar>>]

PlainRecord(name, version) ==
    [name |-> name, version |-> version, source |-> Registry, wheels |-> <<>>,
     sdist |-> NoSdist, dependencies |-> <<>>, optional_dependencies |-> <<>>]

\* The project's own record: uv writes it with a virtual or an editable source.
OwnRecords ==
    {[PlainRecord("proj", "0.1") EXCEPT !.source = src, !.optional_dependencies = opt] :
        src \in {[NoSource EXCEPT !.virtual = "."], [NoSource EXCEPT !.editable = "."]},
        opt \in {<<>>, <<GroupFoo>>}}

SourceRecords ==
    {[PlainRecord("pkg", "1.0") EXCEPT !.source = src] : src \in SourceTables}
        \cup {[PlainRecord("pkg", "1.0") EXCEPT !.source = [NoSource EXCEPT !.git = GitWithRef],
                                                !.optional_dependencies = <<GroupFoo>>]}

ArtifactRecords ==
    {[PlainRecord("pkg", "1.0") EXCEPT !.wheels = f[1], !.sdist = f[2]] :
        f \in {<<<<WheelHashed>>, NoSdist>>,
               <<<<WheelBare>>, NoSdist>>,
               <<<<WheelHashed, WheelBroken>>, NoSdist>>,
               <<<<WheelHashed>>, SdistBare>>}}

ExtrasRecords ==
    {[PlainRecord("pkg", v) EXCEPT !.dependencies = d, !.optional_dependencies = opt] :
        v \in {"1.0", "2.0"},
        d \in {<<>>, <<DepBar>>},
        opt \in {<<>>, <<GroupFoo>>, <<GroupFoo, GroupDev>>, <<GroupDev, GroupFoo>>}}

PackageRecords == OwnRecords \cup SourceRecords \cup ArtifactRecords \cup ExtrasRecords

ProjectNames == {"None", "Proj"}

-----------------------------------------------------------------------------
(* uv resolver: _parse_uv_lock *)

\* pdm.utils.normalize_name on the names of the model
normalize_name(n) == IF n = "Proj" THEN "proj" ELSE n

\* Requirement.key: the normalized lowercase name
ReqKey(req) == normalize_name(req.name)

RECURSIVE Join(_)
\* ",".join(xs)
Join(xs) ==
    IF xs = <<>> THEN ""
    ELSE IF Len(xs) = 1 THEN xs[1]
    ELSE xs[1] \o "," \o Join(Tail(xs))

\* NamedRequirement.as_line(): name[extras]specifier; marker
AsLine(req) ==
    req.name
    \o (IF req.extras # <<>> THEN "[" \o Join(req.extras) \o "]" ELSE "")
    \o req.specifier
    \o (IF req.marker # Absent THEN "; " \o req.marker ELSE "")

NewRequirement(kind, name) ==
    [kind |-> kind, name |-> name, specifier |-> "", url |-> Absent, path |-> Absent,
     editable |-> FALSE, revision |-> Absent, extras |-> <<>>, marker |-> Absent]

\* make_requirement, lines 125-133
make_requirement(dep) ==
    AsLine([NewRequirement("named", dep.name) EXCEPT
               !.specifier = IF dep.version # Absent THEN "==" \o dep.version ELSE "",
               !.marker = dep.marker,
               !.extras = dep.extra])

MakeLines(deps) == [k \in 1..Len(deps) |-> make_requirement(deps[k])]

\* GIT_URL.match(git): the groups, or ok = FALSE when the string does not match
\*   (?P<repo>[^:/]+://[^\?#]+)(?:\?rev=(?P<ref>[^#]+?))?(?:#(?P<revision>[a-f0-9]+))$
GitUrlMatch(git) ==
    LET hasRef == Len(git) >= 3 /\ git[2] = "?rev="
        rest == IF hasRef THEN SubSeq(git, 4, Len(git)) ELSE Tail(git)
    IN  [ok |-> /\ Head(git) \in RepoTokens
                /\ Len(rest) = 2
                /\ rest[1] = "#"
                /\ rest[2] \in HexTokens,
         repo |-> Head(git),
         ref |-> IF hasRef THEN git[3] ELSE Absent,
         revision |-> IF Len(rest) = 2 THEN rest[2] ELSE Absent]

\* Lines 142-146: the record is the project's own and is left out.
\* The self test without the virtual case: a virtual record is kept when
\* keep_self is set.
SkipRecordUnlessSelf(package, pname, keep) ==
    /\ pname # "None"
    /\ package.name = normalize_name(pname)
    /\ ~keep

SkipRecord(package, pname, keep) ==
    /\ pname # "None"
    /\ package.name = normalize_name(pname)
    /\ (~keep \/ package.source.virtual # Absent)

\* Lines 149-165: the requirement of a record; ok = FALSE for `raise ValueError`.
RecordRequirement(package) ==
    LET src == package.source
        m == GitUrlMatch(src.git)
    IN  IF src.url # Absent
        THEN [ok |-> TRUE,
              req |-> [NewRequirement("file", package.name) EXCEPT !.url = src.url]]
        ELSE IF src.git # <<>>
        THEN IF ~m.ok
             THEN [ok |-> FALSE, req |-> NewRequirement("vcs", package.name)]
             ELSE [ok |-> TRUE,
                   req |-> [NewRequirement("vcs", package.name) EXCEPT
                               !.url = "git+" \o m.repo
                                       \o (IF m.ref # Absent THEN "@" \o m.ref ELSE ""),
                               !.revision = m.revision]]
        ELSE IF src.editable # Absent
        THEN [ok |-> TRUE,
              req |-> [NewRequirement("file", package.name) EXCEPT
                          !.path = src.editable, !.editable = TRUE]]
        ELSE IF src.path # Absent
        THEN [ok |-> TRUE,
              req |-> [NewRequirement("file", package.name) EXCEPT !.path = src.path]]
        ELSE [ok |-> TRUE,
              req |-> [NewRequirement("named", package.name) EXCEPT
                          !.specifier = "==" \o package.version]]

\* Link(url).filename on the URLs of the model
Filename(url) ==
    CASE url = WheelHashed.url -> "pkg-1.0-py3-none-any.whl"
      [] url = WheelBare.url -> "pkg-1.0-cp312-linux.whl"
      [] url = WheelBroken.url -> "pkg-1.0-cp312-win.whl"
      [] OTHER -> "pkg-1.0.tar.gz"

\* hash_cache.get_hash(link, session) when it succeeds
CachedHash(url) == "sha256:cached:" \o Filename(url)

\* make_hash consulting the cache for every artifact.
NeedsLookupAlways(item) == TRUE

\* "hash" not in item
NeedsLookup(item) == item.hash = NoHash

\* make_hash, lines 135-139: [ok, lookups, record]
make_hash(item) ==
    IF NeedsLookup(item)
    THEN [ok |-> item.url \notin BrokenUrls,
          lookups |-> <<item.url>>,
          record |-> [url |-> item.url, file |-> Filename(item.url),
                      hash |-> CachedHash(item.url)]]
    ELSE [ok |-> TRUE,
          lookups |-> <<>>,
          record |-> [url |-> item.url, file |-> Filename(item.url), hash |-> item.hash]]

\* chain(package.get("wheels", []), [sdist] if sdist else [])
Artifacts(package) ==
    package.wheels \o (IF package.sdist.url # Absent THEN <<package.sdist>> ELSE <<>>)

RECURSIVE HashAll(_, _)
\* Lines 168-169: the loop over the artifacts; it ends at the first failure.
HashAll(items, acc) ==
    IF items = <<>> THEN acc
    ELSE LET h == make_hash(Head(items))
         IN  IF ~h.ok
             THEN [ok |-> FALSE, lookups |-> acc.lookups \o h.lookups, hashes |-> acc.hashes]
             ELSE HashAll(Tail(items),
                          [ok |-> TRUE, lookups |-> acc.lookups \o h.lookups,
                           hashes |-> Append(acc.hashes, h.record)])

NewCandidate(req, name, version, hashes) ==
    [req |-> req, name |-> name, version |-> version, hashes |-> hashes]

\* Candidate.copy_with(requirement): the same candidate on another requirement
CopyWith(candidate, req) == [candidate EXCEPT !.req = req]

Entry(candidate, dependencies) ==
    [candidate |-> candidate, dependencies |-> dependencies, summary |-> ""]

\* The synthetic entry pinned to the name alone, without the version.
ExtraEntryUnpinned(candidate, req, g) ==
    Entry(CopyWith(candidate, [req EXCEPT !.extras = <<g.group>>]),
          <<ReqKey(req)>> \o MakeLines(g.deps))

\* Lines 174-178: the synthetic entry of one optional-dependency group.
ExtraEntry(candidate, req, g) ==
    Entry(CopyWith(candidate, [req EXCEPT !.extras = <<g.group>>]),
          <<ReqKey(req) \o "==" \o candidate.version>> \o MakeLines(g.deps))

\* Lines 170-179: the entries one record adds, in the order they are appended.
RecordEntries(package, candidate, req) ==
    <<Entry(candidate, MakeLines(package.dependencies))>>
        \o [g \in 1..Len(package.optional_dependencies) |->
               ExtraEntry(candidate, req, package.optional_dependencies[g])]

RECURSIVE ParseLoop(_, _, _, _)
\* for package in data["package"]: ...    st = [packages, lookups, visited, error]
ParseLoop(records, pname, keep, st) ==
    IF records = <<>> THEN st
    ELSE LET package == Head(records)
             r == RecordRequirement(package)
             h == HashAll(Artifacts(package), [ok |-> TRUE, lookups |-> <<>>, hashes |-> <<>>])
             candidate == NewCandidate(r.req, package.name, package.version, h.hashes)
         IN  IF SkipRecord(package, pname, keep)
             THEN ParseLoop(Tail(records), pname, keep,
                            [st EXCEPT !.visited = Append(@, "skipped")])
             ELSE IF ~r.ok
             THEN [st EXCEPT !.visited = Append(@, "error"), !.error = "ValueError"]
             ELSE IF ~h.ok
             THEN [st EXCEPT !.visited = Append(@, "error"), !.error = "HashError",
                             !.lookups = @ \o h.lookups]
             ELSE ParseLoop(Tail(records), pname, keep,
                            [st EXCEPT !.visited = Append(@, "kept"),
                                       !.lookups = @ \o h.lookups,
                                       !.packages = @ \o RecordEntries(package, candidate, r.req)])

\* _parse_uv_lock, lines 113-180: [resolution, lookups, visited, error];
\* the Resolution is returned only when no exception was raised.
ParseUvLock(records, pname, keep) ==
    LET st == ParseLoop(records, pname, keep,
                        [packages |-> <<>>, lookups |-> <<>>, visited |-> <<>>,
                         error |-> "none"])
    IN  [resolution |-> IF st.error = "none"
                        THEN [returned |-> TRUE, packages |-> st.packages]
                        ELSE NoResolution,
         lookups |-> st.lookups,
         visited |-> st.visited,
         error |-> st.error]

ParseLock ==
    /\ upc = "start"
    /\ LET r == ParseUvLock(data, project_name, keep_self)
       IN  /\ resolution' = r.resolution
           /\ error' = r.error
           /\ lookups' = r.lookups
           /\ visited' = r.visited
    /\ upc' = "done"
    /\ UNCHANGED <<config, sources, data, project_name, keep_self, exit_status, cmd,
                   uv_events>>
    /\ UNCHANGED exportVars

InitParse ==
    /\ ExportIdle
    /\ config = NoConfig
    /\ sources = <<>>
    /\ data \in SeqsUpTo(PackageRecords, MaxPackages)
    /\ project_name \in ProjectNames
    /\ keep_self \in BOOLEAN
    /\ exit_status = 0
    /\ upc = "start"
    /\ cmd = <<>>
    /\ resolution = NoResolution
    /\ error = "none"
    /\ lookups = <<>>
    /\ visited = <<>>
    /\ uv_events = <<>>

NextParse == ParseLock

SpecParse == InitParse /\ [][NextParse]_vars

(* Lock parser: properties *)

ParseDone == upc = "done"

ParseReturned == ParseDone /\ resolution.returned

RECURSIVE EntriesBefore(_)
\* How many entries the records before record i gave: one per kept record
\* plus one per optional-dependency group of it.
EntriesBefore(i) ==
    IF i <= 1 THEN 0
    ELSE EntriesBefore(i - 1)
           + (IF visited[i - 1] = "kept"
              THEN 1 + Len(data[i - 1].optional_dependencies) ELSE 0)

\* C5: for every kept record, the base entry comes first and is directly
\* followed by one entry per optional-dependency group in document order,
\* ahead of the next record's entries; each such entry has the base name and
\* version, that one group as extras, and a dependency list that starts with
\* "<key>==<base version>" followed by the group's dependencies in order.
C5_ExtrasAfterBase ==
    ParseReturned =>
        /\ Len(visited) = Len(data)
        /\ Len(resolution.packages) = EntriesBefore(Len(data) + 1)
        /\ \A i \in 1..Len(data) :
              visited[i] = "kept" =>
                LET at == EntriesBefore(i) + 1
                    base == resolution.packages[at]
                    groups == data[i].optional_dependencies
                IN  /\ base.candidate.name = data[i].name
                    /\ base.candidate.version = data[i].version
                    /\ base.candidate.req.extras = <<>>
                    /\ base.dependencies = MakeLines(data[i].dependencies)
                    /\ \A g \in 1..Len(groups) :
                          LET e == resolution.packages[at + g]
                          IN  /\ e.candidate.name = data[i].name
                              /\ e.candidate.version = base.candidate.version
                              /\ e.candidate.req.extras = <<groups[g].group>>
                              /\ Len(e.dependencies) = 1 + Len(groups[g].deps)
                              /\ e.dependencies[1]
                                   = data[i].name \o "==" \o data[i].version
                              /\ Tail(e.dependencies) = MakeLines(groups[g].deps)

\* The example of the spec: pkg 1.0 with the group foo, then another record.
C5_Witness ==
    /\ ParseReturned
    /\ Len(data) = 2
    /\ data[1].name = "pkg" /\ data[1].version = "1.0"
    /\ data[1].optional_dependencies = <<GroupFoo>>
    /\ data[2].version = "2.0"
    /\ Len(resolution.packages) = 3
    /\ resolution.packages[2].candidate.req.extras = <<"foo">>
    /\ resolution.packages[2].dependencies = <<"pkg==1.0", "bar">>
    /\ resolution.packages[3].candidate.version = "2.0"

IsOwnRecord(i) ==
    project_name # "None" /\ data[i].name = normalize_name(project_name)

IsVirtual(i) == data[i].source.virtual # Absent

\* C6 (as claimed): the project's own record is skipped when keep_self is
\* off and kept when it is virtual and keep_self is on; no other record is
\* skipped.
C6_VirtualSelfKept ==
    ParseDone =>
        \A i \in 1..Len(visited) :
            /\ (IsOwnRecord(i) /\ ~keep_self) => visited[i] = "skipped"
            /\ (IsOwnRecord(i) /\ IsVirtual(i) /\ keep_self) => visited[i] = "kept"
            /\ ~IsOwnRecord(i) => visited[i] # "skipped"

\* C6 (amended): the project's own record is skipped when keep_self is off
\* or its source is virtual, and is not skipped when keep_self is on and its
\* source is not virtual; no other record is skipped.
C6_VirtualSelfSkipped ==
    ParseDone =>
        \A i \in 1..Len(visited) :
            /\ (IsOwnRecord(i) /\ (~keep_self \/ IsVirtual(i))) => visited[i] = "skipped"
            /\ (IsOwnRecord(i) /\ keep_self /\ ~IsVirtual(i)) => visited[i] = "kept"
            /\ ~IsOwnRecord(i) => visited[i] # "skipped"

\* keep_self is on: the virtual own record is skipped, the editable one kept.
C6_Witness ==
    /\ ParseDone
    /\ keep_self
    /\ Len(data) = 2
    /\ IsOwnRecord(1) /\ IsVirtual(1)
    /\ IsOwnRecord(2) /\ ~IsVirtual(2)
    /\ visited = <<"skipped", "kept">>

BadVcs(i) == data[i].source.git \notin {<<>>, GitWithRef, GitNoRef}

BadHash(i) ==
    \E k \in 1..Len(Artifacts(data[i])) :
        /\ Artifacts(data[i])[k].hash = NoHash
        /\ Artifacts(data[i])[k].url \in BrokenUrls

\* C7: a record that is not skipped and has a malformed VCS string, or an
\* artifact without hash whose cache lookup fails, ends the parse at that
\* record with an error and no Resolution; without such a record every
\* record is visited and the Resolution is returned; an artifact with a hash
\* in the document is never looked up in the hash cache.
C7_AllOrNothing ==
    ParseDone =>
        /\ \A i \in 1..Len(visited) :
              (visited[i] # "skipped" /\ (BadVcs(i) \/ BadHash(i))) =>
                  /\ visited[i] = "error"
                  /\ i = Len(visited)
                  /\ ~resolution.returned
                  /\ resolution.packages = <<>>
                  /\ error # "none"
        /\ (\A i \in 1..Len(visited) : visited[i] # "error") =>
              /\ Len(visited) = Len(data)
              /\ resolution.returned
              /\ error = "none"
        /\ \A i \in 1..Len(data) :
              \A k \in 1..Len(Artifacts(data[i])) :
                  Artifacts(data[i])[k].hash # NoHash =>
                      ~InList(Artifacts(data[i])[k].url, lookups)

\* A good record with a hashed wheel, then a git source without revision:
\* the parse ends at the second record and the first record's entry is lost.
C7_Witness ==
    /\ ParseDone
    /\ Len(data) = 2
    /\ data[1].wheels = <<WheelHashed>>
    /\ data[2].source.git = GitNoRevision
    /\ visited = <<"kept", "error">>
    /\ error = "ValueError"
    /\ ~resolution.returned
    /\ lookups = <<>>

-----------------------------------------------------------------------------
(* uv resolver: resolve *)

\* subprocess.run without check=True: the exit status is ignored.
RunFailedNever(status) == FALSE

\* subprocess.run(..., check=True) raises CalledProcessError
RunFailed(status) == status # 0

\* resolve(), lines 182-201: [cmd, events, resolution, lookups, visited, error]
ResolveResult(cfg, srcs, records, pname, keep, status) ==
    LET command == BuildLockCommand(cfg, srcs)
        before == <<"build_pyproject_toml">>
                  \o (IF cfg.update_strategy # "all" THEN <<"build_uv_lock">> ELSE <<>>)
                  \o (IF cfg.rich_reporter THEN <<"reporter.stop">> ELSE <<>>)
                  \o <<"_build_lock_command", "echo", "subprocess.run">>
                  \o (IF cfg.rich_reporter THEN <<"reporter.start">> ELSE <<>>)
        r == ParseUvLock(records, pname, keep)
    IN  IF RunFailed(status)
        THEN [cmd |-> command, events |-> before, resolution |-> NoResolution,
              lookups |-> <<>>, visited |-> <<>>, error |-> "CalledProcessError"]
        ELSE [cmd |-> command, events |-> Append(before, "_parse_uv_lock"),
              resolution |-> r.resolution, lookups |-> r.lookups,
              visited |-> r.visited, error |-> r.error]

Resolve ==
    /\ upc = "start"
    /\ LET r == ResolveResult(config, sources, data, project_name, keep_self, exit_status)
       IN  /\ cmd' = r.cmd
           /\ uv_events' = r.events
           /\ resolution' = r.resolution
           /\ lookups' = r.lookups
           /\ visited' = r.visited
           /\ error' = r.error
    /\ upc' = "done"
    /\ UNCHANGED <<config, sources, data, project_name, keep_self, exit_status>>
    /\ UNCHANGED exportVars

ExitStatuses == {0, 1, 2}

InitResolve ==
    /\ ExportIdle
    /\ config \in Configs
    /\ sources \in SeqsUpTo(Sources, 1)
    /\ data \in SeqsUpTo(PackageRecords, 1)
    /\ project_name = "Proj"
    /\ keep_self \in BOOLEAN
    /\ exit_status \in ExitStatuses
    /\ upc = "start"
    /\ cmd = <<>>
    /\ resolution = NoResolution
    /\ error = "none"
    /\ lookups = <<>>
    /\ visited = <<>>
    /\ uv_events = <<>>

NextResolve == Resolve

SpecResolve == InitResolve /\ [][NextResolve]_vars

(* resolve: properties *)

Positions(e) == {k \in 1..Len(uv_events) : uv_events[k] = e}

\* C8: resolve() builds the command, then runs uv exactly once, then parses;
\* the parser runs only when uv exited with status zero, and a non-zero
\* status ends resolve() with the subprocess error and no Resolution.
C8_ParseAfterRun ==
    upc = "done" =>
        /\ Cardinality(Positions("_build_lock_command")) = 1
        /\ Cardinality(Positions("subprocess.run")) = 1
        /\ \A b \in Positions("_build_lock_command"), r \in Positions("subprocess.run") :
              b < r
        /\ \A r \in Positions("subprocess.run"), q \in Positions("_parse_uv_lock") :
              r < q
        /\ Cardinality(Positions("_parse_uv_lock")) = (IF exit_status = 0 THEN 1 ELSE 0)
        /\ exit_status # 0 =>
              /\ ~resolution.returned
              /\ error = "CalledProcessError"
              /\ visited = <<>>
              /\ lookups = <<>>

\* uv exits non-zero on a lock document that would parse.
C8_Witness ==
    /\ upc = "done"
    /\ exit_status = 1
    /\ Len(data) = 1
    /\ ~BadVcs(1) /\ ~BadHash(1)
    /\ error = "CalledProcessError"
    /\ ~resolution.returned
    /\ Positions("subprocess.run") # {}
    /\ Positions("_parse_uv_lock") = {}

====
